---- MODULE Spec2Model ----
(***************************************************************************)
(* Model of keboola/waii-integration: the Storage API metadata client, the *)
(* table normalizer of the metadata collector, the component description   *)
(* resolver it calls, the semantic statement builder, the publisher and    *)
(* main.                                                                   *)
(*                                                                         *)
(* SpecClient    : one extract call with a limit, followed by an           *)
(*                 unlimited call against the same backend.                *)
(* SpecCollector : get_tables_metadata_sample over a whole raw result.     *)
(* SpecResolver  : calls of get_description / get_full_component_info on   *)
(*                 one ComponentDescriptionManager.                        *)
(* SpecPipeline  : get_tables_metadata_sample, then                        *)
(*                 create_semantic_context_statements on its tables.       *)
(* SpecPublisher : the WAII block of main: the manager is constructed and  *)
(*                 add_to_semantic_context called once.                    *)
(* SpecAudit     : get_tables_metadata_sample, then the WAII block, with   *)
(*                 every audit file write failing or not.                  *)
(* SpecMain      : main of the packaged and of the flat script, from the   *)
(*                 check of the environment to the exit status.            *)
(***************************************************************************)
EXTENDS Integers, Sequences, FiniteSets, TLC

\* ------------------------------------------------------------------ bounds
MaxBuckets == 2     \* buckets the backend lists
MaxTables  == 3     \* tables of the backend, over all buckets
MaxLimit   == 3     \* largest limit passed to the client
MaxMeta    == 3     \* metadata items of the table of a one-table project
MaxLoopTables == 2  \* tables of a project with several tables
MaxCalls == 3       \* calls a direct caller makes on one ComponentDescriptionManager
MaxStatements == 3  \* statements passed to add_to_semantic_context
MaxConnections == 2 \* connections WAII.Database.get_connections lists

\* `limit: Optional[int] = None`; the limits N of the model are 0..MaxLimit
NoLimit == -1

VARIABLES
    \* -- Storage API backend (fixed during a behaviour)
    sizes,          \* sizes[b]: number of tables bucket b lists
    detailFails,    \* table ids whose tables.detail call raises
    listFails,      \* 0: no listing fails, -1: buckets.list raises,
                    \* b: buckets.list_tables(b) raises
    \* -- KeboolaClient, one extract call
    variant,        \* which of the two client revisions is running
    limit,          \* the limit argument
    cpc,            \* position in the extract method
    bi, ti,         \* the bucket loop and the table loop
    resBuckets,     \* result.buckets
    resTables,      \* result.tables: bucket id -> table list
    resDetails,     \* result.table_details, in insertion order
    total,          \* total_tables_processed
    ret,            \* what the caller of extract receives
    calls,          \* Storage API calls issued by this extract call
    limitedRet,     \* the result of the limited call, kept by the caller
    limitedN,       \* the limit of that call
    \* -- component directory endpoint (fixed during a behaviour)
    credentials,    \* KEBOOLA_API_TOKEN and KEBOOLA_BASE_URL of the process
    directoryFails, \* the GET of the component directory raises
    directory,      \* the `components` list the endpoint serves
    \* -- ComponentDescriptionManager
    cache,          \* self._cache: not loaded (None) or id -> component info
    httpGets,       \* requests.get calls issued
    rcalls,         \* the calls of get_description / get_full_component_info
                    \* made by a direct caller of the manager, with results
    \* -- KeboolaMetadataCollector.get_tables_metadata_sample
    clientRaises,   \* the client's extract call raises
    raw_metadata,   \* what the client's extract call returns
    kpc,            \* position in get_tables_metadata_sample
    kidx,           \* position in the loop over buckets and tables
    metadata_tables, \* metadata.tables, in insertion order
    processed,      \* one record per call of _process_table_data
    snapshot,       \* the metadata snapshot file, once written
    kret,           \* what the caller of get_tables_metadata_sample receives
    \* -- WaiiSemanticContextManager.create_semantic_context_statements
    bpc,            \* position in create_semantic_context_statements
    bidx,           \* position in the loop over tables.items()
    statement_parts, \* the statement_parts list of each table done
    statements,     \* the list `statements`
    bret,           \* what the caller of the builder receives
    \* -- the WAII service and WaiiSemanticContextManager
    waiiParams,     \* the arguments of WaiiSemanticContextManager(...)
    initializeFails, \* WAII.initialize raises
    activatable,    \* the connections activate_connection accepts
    connListFails,  \* WAII.Database.get_connections raises
    connections,    \* the ids get_connections lists, in listing order
    requestOutcome, \* what modify_semantic_context does with a request
    pstatements,    \* the argument of add_to_semantic_context
    mpc,            \* position of the constructor
    ppc,            \* position in add_to_semantic_context
    waiiLog,        \* SDK calls, file writes and warnings, in order
    pret,           \* what the caller of add_to_semantic_context receives
    statement_ids,  \* self.statement_ids
    exitStatus,     \* the exit status of the run, once it ended
    \* -- main of the two scripts
    script,         \* which semantic_context_add.py runs
    env,            \* the names of the environment variables that are set
    dry_run,        \* args.dry_run of the flat script
    collectOutcome, \* what the flat collector does once called
    waiiOutcome,    \* what the WAII service does for the flat manager
    mainpc,         \* position in main
    mainLog,        \* the error lines main logs
    storageCalls,   \* calls of the Storage API made by the flat collector
    serviceLog      \* what the flat script did with the WAII service

clientVars == <<sizes, detailFails, listFails, variant, limit, cpc, bi, ti,
                resBuckets, resTables, resDetails, total, ret, calls,
                limitedRet, limitedN>>

resolverVars == <<credentials, directoryFails, directory, cache, httpGets, rcalls>>

collectorVars == <<clientRaises, raw_metadata, kpc, kidx,
                   metadata_tables, processed, snapshot, kret>>

builderVars == <<bpc, bidx, statement_parts, statements, bret>>

publisherVars == <<waiiParams, initializeFails, activatable, connListFails,
                   connections, requestOutcome, pstatements, mpc, ppc,
                   waiiLog, pret, statement_ids, exitStatus>>

mainVars == <<script, env, dry_run, collectOutcome, waiiOutcome, mainpc,
              mainLog, storageCalls, serviceLog>>

otherVars == <<publisherVars, mainVars>>

vars == <<clientVars, resolverVars, collectorVars, builderVars, otherVars>>

\* ---------------------------------------------------------- backend shape
RECURSIVE SumSeq(_)
SumSeq(s) == IF s = <<>> THEN 0 ELSE Head(s) + SumSeq(Tail(s))

SeqsUpTo(S, n) == UNION {[1..k -> S] : k \in 0..n}

Backends == {s \in SeqsUpTo(0..MaxTables, MaxBuckets) : SumSeq(s) <= MaxTables}

\* buckets.list(): bucket ids in backend order
BucketList(sz) == [b \in 1..Len(sz) |-> b]

\* buckets.list_tables(b): ids of the tables of b in backend order; every
\* table id belongs to exactly one bucket
Offset(sz, b) == SumSeq(SubSeq(sz, 1, b - 1))
TableList(sz, b) == [i \in 1..sz[b] |-> Offset(sz, b) + i]

AllTables(sz) == 1..SumSeq(sz)

\* tables.detail(t): the detail record the backend serves for table t
DetailOf(t) == [id |-> t, payload |-> <<"detail", t>>]

\* ------------------------------------------------- raw JSON conventions
\* a key the JSON object does not have: dict.get(key) is None
Absent == "<absent>"
AbsentInt == -1

\* Python truthiness of a string or None
Truthy(v) == v # Absent /\ v # ""

\* dict.get(key, default)
GetOr(v, default) == IF v = Absent THEN default ELSE v

BucketId(b) == "in.c-b" \o ToString(b)
TableId(b, i) == BucketId(b) \o ".t" \o ToString(i)

\* ------------------------------------------- ComponentDescriptionManager
KnownComponent ==
    [id |-> "ex-generic-extractor", longDescription |-> Absent,
     description |-> "Generic Extractor", documentation |-> Absent,
     name |-> "Generic", documentationUrl |-> Absent]

\* KEBOOLA_API_TOKEN and KEBOOLA_BASE_URL as read at import time: an unset
\* token is None, an unset project URL gives the base URL ''
Token == "kbc-token"
BaseUrl == "https://connection.keboola.com"
BothSet == [token |-> Token, base_url |-> BaseUrl]
Credentials == [token : {Absent, "", Token}, base_url : {"", BaseUrl}]

\* (credentials, directoryFails, directory) of the directory endpoint
ServingBackend == <<BothSet, FALSE, <<KnownComponent>>>>
ResolverBackends ==
    {<<[token |-> Absent, base_url |-> ""], FALSE, <<KnownComponent>>>>,
     <<BothSet, TRUE, <<KnownComponent>>>>,
     ServingBackend}

\* longDescription or description or documentation or name or "Component {id}"
BestDescriptionShortFirst(c) ==
    IF Truthy(c.description) THEN c.description
    ELSE IF Truthy(c.longDescription) THEN c.longDescription
    ELSE IF Truthy(c.documentation) THEN c.documentation
    ELSE IF Truthy(c.name) THEN c.name
    ELSE "Component " \o c.id
BestDescription(c) ==
    IF Truthy(c.longDescription) THEN c.longDescription
    ELSE IF Truthy(c.description) THEN c.description
    ELSE IF Truthy(c.documentation) THEN c.documentation
    ELSE IF Truthy(c.name) THEN c.name
    ELSE "Component " \o c.id

\* the component_info dict; it has no 'id' key
ComponentInfoOf(c) ==
    [description |-> BestDescription(c),
     name |-> GetOr(c.name, ""),
     long_description |-> GetOr(c.longDescription, ""),
     documentation_url |-> GetOr(c.documentationUrl, ""),
     id |-> Absent]

\* the loop building component_map; a later component of the same id replaces
\* an earlier one, a component without id is skipped
RECURSIVE ComponentMap(_)
ComponentMap(components) ==
    IF components = <<>> THEN <<>>
    ELSE LET n == Len(components)
             c == components[n]
             rest == ComponentMap(SubSeq(components, 1, n - 1))
         IN IF ~Truthy(c.id) THEN rest ELSE (c.id :> ComponentInfoOf(c)) @@ rest

\* _get_components_from_api: an exception of the GET gives the empty list
GetComponentsFromApi == IF directoryFails THEN <<>> ELSE directory

\* `if not self._token or not self._base_url`
HasCredentials == Truthy(credentials.token) /\ Truthy(credentials.base_url)

\* _fetch_component_list: the map it returns and the requests.get calls it
\* issues
FetchWithoutCredentialCheck ==
    [map |-> ComponentMap(GetComponentsFromApi), gets |-> 1]
FetchComponentList ==
    IF ~HasCredentials THEN [map |-> <<>>, gets |-> 0]
    ELSE [map |-> ComponentMap(GetComponentsFromApi), gets |-> 1]

NotLoaded == [loaded |-> FALSE, map |-> <<>>]

\* `if self._cache is None`
NeedsLoadWhenEmpty == ~cache.loaded \/ cache.map = <<>>
NeedsLoad == ~cache.loaded

\* `if self._cache is None: self._cache = self._fetch_component_list()`
LoadedCache ==
    IF NeedsLoad THEN [loaded |-> TRUE, map |-> FetchComponentList.map] ELSE cache

GetsOfLoad == IF NeedsLoad THEN FetchComponentList.gets ELSE 0

PlaceholderText(id) == "Component " \o id \o " (no description available)"

\* the dict get_full_component_info returns for an id it does not know
PlaceholderWithoutText(id) ==
    [description |-> "",
     name |-> "", long_description |-> "", documentation_url |-> "",
     id |-> Absent]
Placeholder(id) ==
    [description |-> PlaceholderText(id),
     name |-> "", long_description |-> "", documentation_url |-> "",
     id |-> Absent]

\* get_full_component_info: the cached dict itself, or a fresh placeholder
GetFullComponentInfo(id) ==
    IF id \in DOMAIN LoadedCache.map THEN LoadedCache.map[id] ELSE Placeholder(id)

\* get_description: what the caller receives
GetDescriptionKeyError(id) ==
    IF id \in DOMAIN LoadedCache.map
    THEN [raised |-> FALSE, value |-> LoadedCache.map[id].description]
    ELSE [raised |-> TRUE, value |-> Absent]
GetDescription(id) ==
    IF id \in DOMAIN LoadedCache.map
    THEN [raised |-> FALSE, value |-> LoadedCache.map[id].description]
    ELSE [raised |-> FALSE, value |-> PlaceholderText(id)]

ResolverIdle ==
    /\ credentials = [token |-> Absent, base_url |-> ""]
    /\ directoryFails = FALSE
    /\ directory = <<>>
    /\ cache = NotLoaded
    /\ httpGets = 0
    /\ rcalls = <<>>

\* ----------------------------------------------- the table normalizer
NAME == "KBC.name"
DESCRIPTION == "KBC.description"
COMPONENT_ID == "KBC.createdBy.component.id"

\* metadata items of the raw detail; the last one has no 'value'
ItemsOf(key, values) == {[key |-> key, value |-> v] : v \in values}
Items ==
    ItemsOf(NAME, {"", "sales", "orders"})
        \cup ItemsOf(DESCRIPTION, {"", "Daily sales"})
        \cup ItemsOf(COMPONENT_ID, {"", "ex-generic-extractor"})
        \cup ItemsOf("KBC.lastUpdatedBy.component.id", {Absent})

\* metadata lists of the tables of a project with several tables
LoopMetadata ==
    {<<>>,
     <<[key |-> COMPONENT_ID, value |-> "ex-generic-extractor"]>>,
     <<[key |-> COMPONENT_ID, value |-> "keboola.unknown"]>>,
     <<[key |-> COMPONENT_ID, value |-> Absent]>>}

IsoDate == "2024-01-15T10:30:00"
RawDates == {Absent, IsoDate, "not-a-date"}

RawDetails(lists, imports, changes, names, rows) ==
    [metadata : lists, lastImportDate : imports,
     lastChangeDate : changes, displayName : names, rowsCount : rows]

TableDetails ==
    RawDetails(SeqsUpTo(Items, MaxMeta), RawDates, {Absent, "not-a-date"},
               {"sales_daily"}, {120})

LoopDetails ==
    RawDetails(LoopMetadata, {Absent}, {Absent}, {Absent}, {0})
        \cup RawDetails({<<[key |-> COMPONENT_ID, value |-> "ex-generic-extractor"]>>},
                        {"not-a-date"}, {Absent}, {Absent}, {0})
        \cup RawDetails({<<>>}, {Absent}, {Absent}, {Absent}, {AbsentInt})

\* a datetime value; an unset date is None
NoDate == [set |-> FALSE, date |-> "", time |-> ""]
FromIsoFormat(v) ==
    CASE v = IsoDate -> [set |-> TRUE, date |-> "2024-01-15", time |-> "10:30:00"]

IsIso(v) == v \in {IsoDate}

\* models.parse_datetime: None for None and for a string that does not parse
ParseDatetime(v) ==
    IF v = Absent THEN NoDate
    ELSE IF IsIso(v) THEN FromIsoFormat(v) ELSE NoDate

\* validation of a field `Optional[datetime] = Field(None, ...)` of the
\* collector's Table, which has no validator of its own: a string that does
\* not parse is a ValidationError
DatetimeField(v) ==
    IF v = Absent THEN [ok |-> TRUE, value |-> NoDate]
    ELSE IF IsIso(v) THEN [ok |-> TRUE, value |-> FromIsoFormat(v)]
    ELSE [ok |-> FALSE, value |-> NoDate]

\* MetadataItem(key=m['key'], value=m['value']) raises without a str value
ItemOk(m) == m.key # Absent /\ m.value # Absent

\* next((m.value for m in metadata if m.key == key), None)
RECURSIVE FirstValue(_, _)
FirstValue(metadata, key) ==
    IF metadata = <<>> THEN Absent
    ELSE IF Head(metadata).key = key THEN Head(metadata).value
    ELSE FirstValue(Tail(metadata), key)

\* `if not component_id`
ComponentIdMissingOnlyNone(cid) == cid = Absent
ComponentIdMissing(cid) == ~Truthy(cid)

\* Table.extract_metadata_fields, from the state (name, description)
RECURSIVE ExtractLastWins(_, _, _)
ExtractLastWins(metadata, name, description) ==
    IF metadata = <<>> THEN [name |-> name, description |-> description]
    ELSE LET item == Head(metadata) IN
         IF item.key = NAME
         THEN ExtractLastWins(Tail(metadata), item.value, description)
         ELSE IF item.key = DESCRIPTION
         THEN ExtractLastWins(Tail(metadata), name, item.value)
         ELSE ExtractLastWins(Tail(metadata), name, description)

RECURSIVE ExtractMetadataFields(_, _, _)
ExtractMetadataFields(metadata, name, description) ==
    IF metadata = <<>> THEN [name |-> name, description |-> description]
    ELSE LET item == Head(metadata) IN
         IF item.key = NAME /\ name = ""
         THEN ExtractMetadataFields(Tail(metadata), item.value, description)
         ELSE IF item.key = DESCRIPTION /\ description = ""
         THEN ExtractMetadataFields(Tail(metadata), name, item.value)
         ELSE ExtractMetadataFields(Tail(metadata), name, description)

\* the `except Exception` of _process_table_data returns None
CatchesNothing == FALSE
CatchesTableError == TRUE

\* the result of _process_table_data: a Table or None, whether the except
\* clause ran, and the resolver cache it leaves
Dropped(raised, c, gets) ==
    [kind |-> "none", raised |-> raised, table |-> <<>>, cache |-> c, gets |-> gets]

\* _process_table_data
ProcessTableData(table_id, table_data, bucket_id) ==
    LET metadata == table_data.metadata
        component_id == FirstValue(metadata, COMPONENT_ID)
    IN
    IF \E i \in DOMAIN metadata : ~ItemOk(metadata[i])
    THEN Dropped(TRUE, cache, 0)
    ELSE IF ComponentIdMissing(component_id)
    THEN Dropped(FALSE, cache, 0)
    ELSE
    LET info == GetFullComponentInfo(component_id)
        \* component_data['id'] = component_id writes into the cached dict
        cache2 == IF component_id \in DOMAIN LoadedCache.map
                  THEN [LoadedCache EXCEPT !.map[component_id].id = component_id]
                  ELSE LoadedCache
        component_data == [info EXCEPT !.id = component_id]
        imp == DatetimeField(table_data.lastImportDate)
        chg == DatetimeField(table_data.lastChangeDate)
        fields == ExtractMetadataFields(metadata, "", "")
    IN
    IF ~imp.ok \/ ~chg.ok
    THEN Dropped(TRUE, cache2, GetsOfLoad)
    ELSE [kind |-> "table", raised |-> FALSE, cache |-> cache2, gets |-> GetsOfLoad,
          table |-> <<[id |-> table_id,
                       name |-> fields.name,
                       description |-> fields.description,
                       display_name |-> GetOr(table_data.displayName, table_id),
                       last_import_date |-> imp.value,
                       last_change_date |-> chg.value,
                       created_by_component |-> component_data,
                       columns |-> <<>>,
                       bucket |-> [id |-> bucket_id, stage |-> Absent],
                       rows_count |-> IF table_data.rowsCount = AbsentInt
                                      THEN 0 ELSE table_data.rowsCount,
                       metadata |-> metadata]>>]

\* ------------------------------------------ get_tables_metadata_sample
EmptyRaw == [tables |-> <<>>, details |-> <<>>]

Shapes(n) == {s \in SeqsUpTo(0..n, MaxBuckets) : SumSeq(s) <= n}

RawTablesOf(sz) ==
    [b \in 1..Len(sz) |->
        [bucket |-> BucketId(b), tables |-> [i \in 1..sz[b] |-> TableId(b, i)]]]

IdsOf(sz) == {TableId(b, i) : b \in 1..Len(sz), i \in 1..MaxTables + MaxLoopTables}
                \cap UNION {{TableId(b, i) : i \in 1..sz[b]} : b \in 1..Len(sz)}

\* a project of one table with any detail, or of several tables of which
\* any subset has a detail
OneTableInputs ==
    {[tables |-> RawTablesOf(<<1>>), details |-> (TableId(1, 1) :> d)] :
        d \in TableDetails}

LoopInputs(sz) ==
    {[tables |-> RawTablesOf(sz), details |-> f] :
        f \in UNION {[S -> LoopDetails] : S \in SUBSET IdsOf(sz)}}

\* `for bucket_id, tables in raw_metadata['tables'].items(): for table in tables:`
RECURSIVE Flatten(_)
Flatten(buckets) ==
    IF buckets = <<>> THEN <<>>
    ELSE [i \in DOMAIN Head(buckets).tables |->
             [bucket |-> Head(buckets).bucket, table |-> Head(buckets).tables[i]]]
         \o Flatten(Tail(buckets))

Pending == Flatten(raw_metadata.tables)

NoResult == [kind |-> "none", tables |-> <<>>]

CollectorIdle ==
    /\ clientRaises = FALSE
    /\ raw_metadata = EmptyRaw
    /\ kpc = "idle"
    /\ kidx = 0
    /\ metadata_tables = <<>>
    /\ processed = <<>>
    /\ snapshot = <<>>
    /\ kret = NoResult

\* no builder call yet
NoStatements == [kind |-> "none", error |-> "", statements |-> <<>>]

BuilderIdle ==
    /\ bpc = "idle"
    /\ bidx = 0
    /\ statement_parts = <<>>
    /\ statements = <<>>
    /\ bret = NoStatements

\* The publisher before any manager is constructed.
NoParams == [api_url |-> "", api_key |-> "", connection_name |-> "",
             db_database |-> Absent, db_username |-> Absent]

NoOutcome == [kind |-> "none"]

PublisherIdle ==
    /\ waiiParams = NoParams
    /\ initializeFails = FALSE
    /\ activatable = {}
    /\ connListFails = FALSE
    /\ connections = <<>>
    /\ requestOutcome = NoOutcome
    /\ pstatements = <<>>
    /\ mpc = "idle"
    /\ ppc = "idle"
    /\ waiiLog = <<>>
    /\ pret = NoOutcome
    /\ statement_ids = <<>>
    /\ exitStatus = -1

MainIdle ==
    /\ script = "packaged"
    /\ env = {}
    /\ dry_run = FALSE
    /\ collectOutcome = "none"
    /\ waiiOutcome = "none"
    /\ mainpc = "idle"
    /\ mainLog = <<>>
    /\ storageCalls = 0
    /\ serviceLog = <<>>

OtherIdle == PublisherIdle /\ MainIdle

\* ------------------------------------------------------------- the client
Variants == {"extract_metadata", "extract_metadata_from_project"}

\* `if limit is not None and total_tables_processed >= limit`
LimitReachedOffByOne(lim, n) == lim # NoLimit /\ n > lim
LimitReached(lim, n) == lim # NoLimit /\ n >= lim

\* `total_tables_processed += 1`
CountNotIncremented(n) == n
CountAfterFetch(n) == n + 1

\* `result.table_details[table.id] = KeboolaTableDetail(**detail)`: a dict
\* keeps insertion order and table ids are unique
StoreDetailFirst(details, t) == <<DetailOf(t)>> \o details
StoreDetail(details, t) == Append(details, DetailOf(t))

\* `result.tables[bucket.id] = tables`
StoreTables(tables, b, lst) == (b :> lst) @@ tables

NoRet == [kind |-> "none", buckets |-> <<>>, tables |-> <<>>, details |-> <<>>]

\* `return result` / `return Metadata(buckets=..., tables=..., table_details=...)`
ReturnedWithoutTables(b, t, d) == [kind |-> "returned", buckets |-> b, tables |-> <<>>, details |-> d]
Returned(b, t, d) == [kind |-> "returned", buckets |-> b, tables |-> t, details |-> d]

\* `raise e`: the caller receives the exception and no result
RaisedWithPartial(b, t, d) == [kind |-> "returned", buckets |-> b, tables |-> t, details |-> d]
Raised(b, t, d) == [kind |-> "raised", buckets |-> <<>>, tables |-> <<>>, details |-> <<>>]

\* the inner `try ... except Exception: continue` around tables.detail exists
\* in extract_metadata only
CatchesDetailError(v) == v = "extract_metadata"

Call(op, arg, ok) == [op |-> op, arg |-> arg, ok |-> ok, before |-> total]

StartCall(lim) ==
    /\ limit' = lim
    /\ cpc' = "list_buckets"
    /\ bi' = 0
    /\ ti' = 0
    /\ resBuckets' = <<>>
    /\ resTables' = <<>>
    /\ resDetails' = <<>>
    /\ total' = 0
    /\ ret' = NoRet
    /\ calls' = <<>>

InitClient ==
    /\ sizes \in Backends
    /\ detailFails \in SUBSET AllTables(sizes)
    /\ listFails \in {-1} \cup (0..Len(sizes))
    /\ variant \in Variants
    /\ limit \in {NoLimit} \cup (0..MaxLimit)
    /\ cpc = "list_buckets"
    /\ bi = 0
    /\ ti = 0
    /\ resBuckets = <<>>
    /\ resTables = <<>>
    /\ resDetails = <<>>
    /\ total = 0
    /\ ret = NoRet
    /\ calls = <<>>
    /\ limitedRet = NoRet
    /\ limitedN = NoLimit
    /\ ResolverIdle
    /\ CollectorIdle
    /\ BuilderIdle
    /\ OtherIdle

Finish(r) ==
    /\ ret' = r
    /\ cpc' = "done"

\* `self.client.buckets.list()` succeeds
ListBuckets ==
    /\ UNCHANGED <<resolverVars, collectorVars, builderVars, otherVars>>
    /\ cpc = "list_buckets"
    /\ listFails # -1
    /\ calls' = Append(calls, Call("buckets.list", 0, TRUE))
    /\ resBuckets' = BucketList(sizes)
    /\ bi' = 1
    /\ cpc' = "bucket"
    /\ UNCHANGED <<sizes, detailFails, listFails, variant, limit, ti,
                   resTables, resDetails, total, ret, limitedRet, limitedN>>

\* `self.client.buckets.list()` raises
ListBucketsFails ==
    /\ UNCHANGED <<resolverVars, collectorVars, builderVars, otherVars>>
    /\ cpc = "list_buckets"
    /\ listFails = -1
    /\ calls' = Append(calls, Call("buckets.list", 0, FALSE))
    /\ Finish(Raised(resBuckets, resTables, resDetails))
    /\ UNCHANGED <<sizes, detailFails, listFails, variant, limit, bi, ti,
                   resBuckets, resTables, resDetails, total, limitedRet, limitedN>>

\* `for bucket in result.buckets:` has a next bucket whose table listing succeeds
ListTables ==
    /\ UNCHANGED <<resolverVars, collectorVars, builderVars, otherVars>>
    /\ cpc = "bucket"
    /\ bi <= Len(resBuckets)
    /\ listFails # resBuckets[bi]
    /\ calls' = Append(calls, Call("buckets.list_tables", resBuckets[bi], TRUE))
    /\ resTables' = StoreTables(resTables, resBuckets[bi], TableList(sizes, resBuckets[bi]))
    /\ ti' = 1
    /\ cpc' = "table"
    /\ UNCHANGED <<sizes, detailFails, listFails, variant, limit, bi,
                   resBuckets, resDetails, total, ret, limitedRet, limitedN>>

\* the table listing of the next bucket raises
ListTablesFails ==
    /\ UNCHANGED <<resolverVars, collectorVars, builderVars, otherVars>>
    /\ cpc = "bucket"
    /\ bi <= Len(resBuckets)
    /\ listFails = resBuckets[bi]
    /\ calls' = Append(calls, Call("buckets.list_tables", resBuckets[bi], FALSE))
    /\ Finish(Raised(resBuckets, resTables, resDetails))
    /\ UNCHANGED <<sizes, detailFails, listFails, variant, limit, bi, ti,
                   resBuckets, resTables, resDetails, total, limitedRet, limitedN>>

\* the bucket loop is exhausted: the final `return result`
ReturnAll ==
    /\ UNCHANGED <<resolverVars, collectorVars, builderVars, otherVars>>
    /\ cpc = "bucket"
    /\ bi > Len(resBuckets)
    /\ Finish(Returned(resBuckets, resTables, resDetails))
    /\ UNCHANGED <<sizes, detailFails, listFails, variant, limit, bi, ti,
                   resBuckets, resTables, resDetails, total, calls, limitedRet, limitedN>>

CurTables == resTables[resBuckets[bi]]

\* `for table in tables:` is exhausted: on to the next bucket
EndOfBucket ==
    /\ UNCHANGED <<resolverVars, collectorVars, builderVars, otherVars>>
    /\ cpc = "table"
    /\ ti > Len(CurTables)
    /\ bi' = bi + 1
    /\ cpc' = "bucket"
    /\ UNCHANGED <<sizes, detailFails, listFails, variant, limit, ti,
                   resBuckets, resTables, resDetails, total, ret, calls, limitedRet, limitedN>>

\* the limit check at the head of the table loop returns the result
ReturnAtLimit ==
    /\ UNCHANGED <<resolverVars, collectorVars, builderVars, otherVars>>
    /\ cpc = "table"
    /\ ti <= Len(CurTables)
    /\ LimitReached(limit, total)
    /\ Finish(Returned(resBuckets, resTables, resDetails))
    /\ UNCHANGED <<sizes, detailFails, listFails, variant, limit, bi, ti,
                   resBuckets, resTables, resDetails, total, calls, limitedRet, limitedN>>

\* `self.client.tables.detail(table.id)` succeeds
FetchDetail ==
    /\ UNCHANGED <<resolverVars, collectorVars, builderVars, otherVars>>
    /\ cpc = "table"
    /\ ti <= Len(CurTables)
    /\ ~LimitReached(limit, total)
    /\ CurTables[ti] \notin detailFails
    /\ calls' = Append(calls, Call("tables.detail", CurTables[ti], TRUE))
    /\ resDetails' = StoreDetail(resDetails, CurTables[ti])
    /\ total' = CountAfterFetch(total)
    /\ ti' = ti + 1
    /\ UNCHANGED <<sizes, detailFails, listFails, variant, limit, cpc, bi,
                   resBuckets, resTables, ret, limitedRet, limitedN>>

\* `self.client.tables.detail(table.id)` raises: extract_metadata logs and
\* continues with the next table, extract_metadata_from_project lets the
\* exception out
FetchDetailFails ==
    /\ UNCHANGED <<resolverVars, collectorVars, builderVars, otherVars>>
    /\ cpc = "table"
    /\ ti <= Len(CurTables)
    /\ ~LimitReached(limit, total)
    /\ CurTables[ti] \in detailFails
    /\ calls' = Append(calls, Call("tables.detail", CurTables[ti], FALSE))
    /\ IF CatchesDetailError(variant)
       THEN /\ ti' = ti + 1
            /\ UNCHANGED <<cpc, ret>>
       ELSE /\ Finish(Raised(resBuckets, resTables, resDetails))
            /\ UNCHANGED ti
    /\ UNCHANGED <<sizes, detailFails, listFails, variant, limit, bi,
                   resBuckets, resTables, resDetails, total, limitedRet, limitedN>>

\* the caller keeps the result of the limited call and calls again with
\* limit=None against the same backend
CallUnlimited ==
    /\ UNCHANGED <<resolverVars, collectorVars, builderVars, otherVars>>
    /\ cpc = "done"
    /\ limit # NoLimit
    /\ limitedRet' = ret
    /\ limitedN' = limit
    /\ StartCall(NoLimit)
    /\ UNCHANGED <<sizes, detailFails, listFails, variant>>

NextClient ==
    \/ ListBuckets
    \/ ListBucketsFails
    \/ ListTables
    \/ ListTablesFails
    \/ ReturnAll
    \/ EndOfBucket
    \/ ReturnAtLimit
    \/ FetchDetail
    \/ FetchDetailFails
    \/ CallUnlimited

SpecClient == InitClient /\ [][NextClient]_vars

\* ------------------------------------------------- claims on the client
Min(a, b) == IF a <= b THEN a ELSE b

Indices(P(_)) == {i \in DOMAIN calls : P(calls[i])}
IsDetail(c) == c.op = "tables.detail"
IsDetailOk(c) == c.op = "tables.detail" /\ c.ok
IsDetailFailed(c) == c.op = "tables.detail" /\ ~c.ok
IsListTables(c) == c.op = "buckets.list_tables"
IsFailedListing(c) == c.op \in {"buckets.list", "buckets.list_tables"} /\ ~c.ok

DetailIds(d) == {d[i].id : i \in DOMAIN d}
ListedTables(t) == UNION {{t[b][i] : i \in DOMAIN t[b]} : b \in DOMAIN t}
Finished == cpc = "done"

\* C1: a call with limit N that returns has at most N entries in
\* table_details, for every backend and every pattern of detail failures.
C1_AtMostLimitEntries ==
    (Finished /\ ret.kind = "returned" /\ limit # NoLimit)
        => Cardinality(DetailIds(ret.details)) <= limit

C1_Witness ==
    /\ Finished /\ ret.kind = "returned"
    /\ limit \in 1..MaxLimit
    /\ Len(ret.details) = limit
    /\ SumSeq(sizes) > limit
    /\ detailFails # {}

\* C2: against the same backend, the table_details of the call with limit N
\* are the first min(N, total) entries, in order and with the same values,
\* of the table_details of the call with limit=None.
C2_LimitedIsPrefixOfUnlimited ==
    (Finished /\ limit = NoLimit /\ limitedN # NoLimit
        /\ ret.kind = "returned" /\ limitedRet.kind = "returned")
        => limitedRet.details
             = SubSeq(ret.details, 1, Min(limitedN, Len(ret.details)))

C2_Witness ==
    /\ Finished /\ limit = NoLimit
    /\ ret.kind = "returned" /\ limitedRet.kind = "returned"
    /\ limitedN >= 1
    /\ Len(limitedRet.details) = limitedN
    /\ Len(ret.details) > limitedN
    /\ Len(sizes) = 2
    /\ detailFails # {}

\* C3 as stated: with a limit N at most N tables.detail calls are issued,
\* failed calls included.
C3_AtMostLimitDetailCalls ==
    limit # NoLimit => Cardinality(Indices(IsDetail)) <= limit

\* C3 as amended: with a limit N at most N tables.detail calls succeed over
\* all buckets; a failed call is not counted, and the counter equals the
\* number of successful calls of the whole extract call (it is never reset
\* at a bucket).
C3_AtMostLimitSuccessfulCalls ==
    /\ total = Cardinality(Indices(IsDetailOk))
    /\ limit # NoLimit => Cardinality(Indices(IsDetailOk)) <= limit

C3_Witness ==
    /\ Finished /\ limit \in 1..MaxLimit
    /\ Cardinality(Indices(IsDetailOk)) = limit
    /\ Indices(IsDetailFailed) # {}
    /\ Cardinality(Indices(IsListTables)) = 2
    /\ \E i \in Indices(IsDetailOk) : \E j \in Indices(IsListTables) :
          \E k \in Indices(IsDetailOk) : i < j /\ j < k

\* a call issued when the count had already been brought to the limit N >= 1
AfterLimit(c) == limit # NoLimit /\ limit >= 1 /\ c.before >= limit

ResultHoldsListings(r) ==
    /\ r.buckets = BucketList(sizes)
    /\ \A i \in DOMAIN calls :
         (IsListTables(calls[i]) /\ calls[i].ok)
            => /\ calls[i].arg \in DOMAIN r.tables
               /\ r.tables[calls[i].arg] = TableList(sizes, calls[i].arg)

\* C4 as stated: once the count of fetched details has reached the limit no
\* further Storage API call is issued, neither a table listing nor a detail
\* call, and the result holds every bucket and every table list obtained.
C4_NoCallAfterLimit ==
    /\ \A i \in DOMAIN calls : ~AfterLimit(calls[i])
    /\ (Finished /\ ret.kind = "returned") => ResultHoldsListings(ret)

\* C4 as amended: once the count has reached the limit no further
\* tables.detail call is issued; table listings go on for the following
\* buckets until one lists a table (the call returns there) or the buckets
\* are exhausted; the result holds every bucket and every table list
\* obtained before the return.
C4_NoDetailCallAfterLimit ==
    /\ \A i \in DOMAIN calls :
         IsDetail(calls[i]) => ~LimitReached(limit, calls[i].before)
    /\ \A i \in DOMAIN calls :
         (IsListTables(calls[i]) /\ calls[i].ok
            /\ LimitReached(limit, calls[i].before)
            /\ TableList(sizes, calls[i].arg) # <<>>)
            => /\ i = Len(calls)
               /\ cpc \in {"table", "done"}
               /\ Finished => ret.kind = "returned"
    /\ (Finished /\ ret.kind = "returned") => ResultHoldsListings(ret)

C4_Witness ==
    /\ Finished /\ ret.kind = "returned"
    /\ limit \in 1..MaxLimit
    /\ \E i \in DOMAIN calls : IsListTables(calls[i]) /\ AfterLimit(calls[i])
    /\ ListedTables(ret.tables) \ DetailIds(ret.details) # {}

\* C5 as stated, for both client revisions: a failing detail fetch does not
\* make the extract call raise; the table stays in its bucket's table list
\* and is absent from table_details; every later table is still attempted
\* up to the limit.
C5_DetailFailureIsSkipped ==
    /\ (Finished /\ ret.kind = "raised") => ~IsDetail(calls[Len(calls)])
    /\ (Finished /\ ret.kind = "returned") =>
         /\ \A i \in Indices(IsDetailFailed) :
              /\ calls[i].arg \in ListedTables(ret.tables)
              /\ calls[i].arg \notin DetailIds(ret.details)
         /\ \A t \in ListedTables(ret.tables) :
              \/ \E i \in Indices(IsDetail) : calls[i].arg = t
              \/ LimitReached(limit, total)

\* C6: a failing bucket listing or table listing makes the extract call
\* raise, and the caller receives no result, partial or not.
C6_ListingFailureRaises ==
    \A i \in DOMAIN calls :
        IsFailedListing(calls[i])
            => /\ Finished
               /\ ret.kind = "raised"
               /\ ret.buckets = <<>> /\ ret.tables = <<>> /\ ret.details = <<>>

C6_Witness ==
    /\ Finished /\ ret.kind = "raised"
    /\ IsFailedListing(calls[Len(calls)])
    /\ calls[Len(calls)].op = "buckets.list_tables"
    /\ resDetails # <<>>

\* ------------------------------------------------------- the collector
ClientIdle ==
    /\ sizes = <<>>
    /\ detailFails = {}
    /\ listFails = 0
    /\ variant = "extract_metadata"
    /\ limit = NoLimit
    /\ cpc = "idle"
    /\ bi = 0
    /\ ti = 0
    /\ resBuckets = <<>>
    /\ resTables = <<>>
    /\ resDetails = <<>>
    /\ total = 0
    /\ ret = NoRet
    /\ calls = <<>>
    /\ limitedRet = NoRet
    /\ limitedN = NoLimit

InitCollector ==
    /\ ClientIdle
    /\ BuilderIdle
    /\ OtherIdle
    /\ cache = NotLoaded
    /\ httpGets = 0
    /\ rcalls = <<>>
    /\ \E rb \in ResolverBackends :
         /\ credentials = rb[1]
         /\ directoryFails = rb[2]
         /\ directory = rb[3]
         /\ \/ clientRaises = TRUE /\ raw_metadata = EmptyRaw
            \/ clientRaises = FALSE /\ (\E sz \in Shapes(MaxLoopTables) :
                                            raw_metadata \in LoopInputs(sz))
            \/ /\ clientRaises = FALSE /\ raw_metadata \in OneTableInputs
               /\ rb = ServingBackend
    /\ kpc = "extract"
    /\ kidx = 0
    /\ metadata_tables = <<>>
    /\ processed = <<>>
    /\ snapshot = <<>>
    /\ kret = NoResult

\* `raw_metadata = self.client.extract_metadata(limit=limit)` returns
CollectorExtract ==
    /\ UNCHANGED <<otherVars, builderVars, clientVars, resolverVars>>
    /\ kpc = "extract"
    /\ ~clientRaises
    /\ kpc' = "loop"
    /\ kidx' = 1
    /\ UNCHANGED <<clientRaises, raw_metadata, metadata_tables,
                   processed, snapshot, kret>>

\* the client's extract call raises: nothing catches it here
CollectorExtractRaises ==
    /\ UNCHANGED <<otherVars, builderVars, clientVars, resolverVars>>
    /\ kpc = "extract"
    /\ clientRaises
    /\ kpc' = "done"
    /\ kret' = [kind |-> "raised", tables |-> <<>>]
    /\ UNCHANGED <<clientRaises, raw_metadata, kidx, metadata_tables,
                   processed, snapshot>>

\* `if table_id not in raw_metadata.get('table_details', {}): continue`
SkipTable ==
    /\ UNCHANGED <<otherVars, builderVars, clientVars, resolverVars>>
    /\ kpc = "loop"
    /\ kidx <= Len(Pending)
    /\ Pending[kidx].table \notin DOMAIN raw_metadata.details
    /\ kidx' = kidx + 1
    /\ UNCHANGED <<clientRaises, raw_metadata, kpc, metadata_tables,
                   processed, snapshot, kret>>

\* `if table_model := self._process_table_data(...): metadata.tables[table_id] = table_model`
ProcessTable ==
    /\ UNCHANGED <<otherVars, builderVars, clientVars, credentials, directoryFails, directory, rcalls>>
    /\ kpc = "loop"
    /\ kidx <= Len(Pending)
    /\ Pending[kidx].table \in DOMAIN raw_metadata.details
    /\ LET table_id == Pending[kidx].table
           table_data == raw_metadata.details[table_id]
           r == ProcessTableData(table_id, table_data, Pending[kidx].bucket)
       IN /\ cache' = r.cache
          /\ httpGets' = httpGets + r.gets
          /\ processed' = Append(processed,
                 [id |-> table_id, data |-> table_data, kind |-> r.kind,
                  raised |-> r.raised, table |-> r.table])
          /\ metadata_tables' = metadata_tables \o r.table
          /\ IF r.raised /\ ~CatchesTableError
             THEN /\ kpc' = "done"
                  /\ kret' = [kind |-> "raised", tables |-> <<>>]
                  /\ UNCHANGED kidx
             ELSE /\ kidx' = kidx + 1
                  /\ UNCHANGED <<kpc, kret>>
    /\ UNCHANGED <<clientRaises, raw_metadata, snapshot>>

\* `self._save_metadata_to_file(metadata)` in its own try/except, then
\* `return metadata`
ReturnMetadata ==
    /\ UNCHANGED <<otherVars, builderVars, clientVars, resolverVars>>
    /\ kpc = "loop"
    /\ kidx > Len(Pending)
    /\ \E saveFails \in BOOLEAN :
         snapshot' = IF saveFails THEN <<>>
                     ELSE <<[table_count |-> Len(metadata_tables),
                             tables |-> metadata_tables]>>
    /\ kret' = [kind |-> "returned", tables |-> metadata_tables]
    /\ kpc' = "done"
    /\ UNCHANGED <<clientRaises, raw_metadata, kidx, metadata_tables,
                   processed>>

NextCollector ==
    \/ CollectorExtract
    \/ CollectorExtractRaises
    \/ SkipTable
    \/ ProcessTable
    \/ ReturnMetadata

SpecCollector == InitCollector /\ [][NextCollector]_vars

\* ---------------------------------------------- claims on the collector
TableIds(ts) == {ts[i].id : i \in DOMAIN ts}
KeyIndices(md, key) == {i \in DOMAIN md : md[i].key = key}
WellFormed(md) == \A i \in DOMAIN md : ItemOk(md[i])
CollectorReturned == kpc = "done" /\ kret.kind = "returned"

RECURSIVE TablesOf(_)
TablesOf(ps) == IF ps = <<>> THEN <<>> ELSE Head(ps).table \o TablesOf(Tail(ps))

\* C7: a raw table whose metadata has no item with key
\* KBC.createdBy.component.id gives None, so the returned map never holds
\* that table, nor any Table whose created_by_component has an empty id.
C7_NoComponentIdIsDropped ==
    /\ \A i \in DOMAIN processed :
         KeyIndices(processed[i].data.metadata, COMPONENT_ID) = {}
            => /\ processed[i].kind = "none"
               /\ processed[i].id \notin TableIds(metadata_tables)
               /\ processed[i].id \notin TableIds(kret.tables)
    /\ \A ts \in {metadata_tables, kret.tables} : \A i \in DOMAIN ts :
         Truthy(ts[i].created_by_component.id)

C7_Witness ==
    /\ CollectorReturned
    /\ Len(kret.tables) >= 1
    /\ \E i \in DOMAIN processed :
         /\ processed[i].data.metadata = <<>>
         /\ processed[i].data.rowsCount = 0
         /\ processed[i].id \notin TableIds(kret.tables)

FirstNonEmpty(md, key) ==
    LET I == {i \in KeyIndices(md, key) : md[i].value # ""}
    IN IF I = {} THEN ""
       ELSE md[CHOOSE i \in I : \A j \in I : i <= j].value

Unparsed(v) == v = Absent \/ ~IsIso(v)

\* C9 as stated: for a table with a creating-component id, an absent or
\* unparsable lastImportDate / lastChangeDate gives a Table whose date is
\* unset, as models.parse_datetime maps it; the normalizer neither raises
\* nor drops the table.
C9_BadDateIsUnset ==
    \A i \in DOMAIN processed :
        LET d == processed[i].data IN
        (/\ WellFormed(d.metadata)
         /\ Truthy(FirstValue(d.metadata, COMPONENT_ID))
         /\ Unparsed(d.lastImportDate) \/ Unparsed(d.lastChangeDate))
            => /\ processed[i].kind = "table"
               /\ ~processed[i].raised
               /\ Unparsed(d.lastImportDate)
                    => processed[i].table[1].last_import_date
                         = ParseDatetime(d.lastImportDate)
               /\ Unparsed(d.lastChangeDate)
                    => processed[i].table[1].last_change_date
                         = ParseDatetime(d.lastChangeDate)

\* C10: an exception while processing one table drops that table alone;
\* every remaining table is still processed and the returned Metadata holds
\* all the tables that were normalized.
C10_TableErrorDropsOneTable ==
    /\ \A i \in DOMAIN processed : processed[i].raised =>
         /\ processed[i].kind = "none"
         /\ processed[i].id \notin TableIds(metadata_tables)
    /\ (kpc = "done" /\ ~clientRaises) =>
         /\ kret.kind = "returned"
         /\ {processed[i].id : i \in DOMAIN processed}
              = {Pending[j].table : j \in DOMAIN Pending} \cap DOMAIN raw_metadata.details
         /\ Len(processed) = Cardinality({processed[i].id : i \in DOMAIN processed})
         /\ kret.tables = TablesOf(processed)

C10_Witness ==
    /\ CollectorReturned
    /\ \E i, j \in DOMAIN processed :
         /\ i < j
         /\ processed[i].raised
         /\ processed[j].kind = "table"
         /\ processed[j].id \in TableIds(kret.tables)

\* ------------------------------- ComponentDescriptionManager, called directly
\* the elements of `components` the directory endpoint may serve
DescribedComponents ==
    [id : {"ex-generic-extractor"},
     longDescription : {Absent, "", "Extracts data from any REST API"},
     description : {Absent, "Generic Extractor"},
     documentation : {Absent, "See the documentation"},
     name : {"", "Generic"},
     documentationUrl : {Absent}]

OtherComponent ==
    [id |-> "keboola.wr-db", longDescription |-> "", description |-> Absent,
     documentation |-> Absent, name |-> "Database Writer",
     documentationUrl |-> "https://help.keboola.com"]

\* `if not component_id: continue`
NoIdComponents ==
    {[id |-> i, longDescription |-> Absent, description |-> "Orphan",
      documentation |-> Absent, name |-> "", documentationUrl |-> Absent] :
        i \in {Absent, ""}}

\* component ids are unique within the directory the platform serves
Directories ==
    {<<>>}
        \cup {<<c>> : c \in DescribedComponents}
        \cup {<<c, OtherComponent>> : c \in DescribedComponents}
        \cup {<<n, c>> : n \in NoIdComponents, c \in DescribedComponents}

ComponentIds == {"ex-generic-extractor", "keboola.wr-db", "keboola.unknown"}

InitResolver ==
    /\ ClientIdle
    /\ CollectorIdle
    /\ BuilderIdle
    /\ OtherIdle
    /\ \/ /\ credentials = BothSet
          /\ directoryFails = FALSE
          /\ directory \in Directories
       \/ /\ credentials \in Credentials
          /\ directoryFails \in BOOLEAN
          /\ directory = <<KnownComponent>>
    /\ cache = NotLoaded
    /\ httpGets = 0
    /\ rcalls = <<>>

\* one call of a method of the manager: the cache initialisation both methods
\* start with, then the lookup
ResolverCall(op, id, result) ==
    /\ Len(rcalls) < MaxCalls
    /\ cache' = LoadedCache
    /\ httpGets' = httpGets + GetsOfLoad
    /\ rcalls' = Append(rcalls, [op |-> op, id |-> id, result |-> result,
                                 loads |-> IF NeedsLoad THEN 1 ELSE 0,
                                 gets |-> GetsOfLoad])
    /\ UNCHANGED <<credentials, directoryFails, directory>>
    /\ UNCHANGED <<otherVars, builderVars, clientVars, collectorVars>>

CallGetDescription ==
    \E id \in ComponentIds :
        ResolverCall("get_description", id, GetDescription(id))

CallGetFullComponentInfo ==
    \E id \in ComponentIds :
        ResolverCall("get_full_component_info", id,
                     [raised |-> FALSE, value |-> GetFullComponentInfo(id)])

NextResolver == CallGetDescription \/ CallGetFullComponentInfo

SpecResolver == InitResolver /\ [][NextResolver]_vars

\* ------------------------------------------------- claims on the resolver
\* the ids the fetched directory has as keys: none when the credentials are
\* missing or the fetch failed
TokenSet == credentials.token # Absent /\ credentials.token # ""
BaseUrlSet == credentials.base_url # ""
FetchedIds ==
    IF TokenSet /\ BaseUrlSet /\ ~directoryFails
    THEN {directory[i].id : i \in DOMAIN directory} \ {Absent, ""}
    ELSE {}

NoDescription(id) == "Component " \o id \o " (no description available)"

DescriptionReturned(c) ==
    IF c.op = "get_description" THEN c.result.value ELSE c.result.value.description

\* C11: for every component id that is not a key of the fetched directory
\* (also when the fetch failed), get_description returns exactly
\* "Component {id} (no description available)" and never raises, and
\* get_full_component_info returns a record with that description
C11_UnknownIdGivesPlaceholder ==
    \A i \in DOMAIN rcalls :
        /\ ~rcalls[i].result.raised
        /\ rcalls[i].id \notin FetchedIds
              => DescriptionReturned(rcalls[i]) = NoDescription(rcalls[i].id)

C11_Witness ==
    /\ \E i, j \in DOMAIN rcalls :
          /\ rcalls[i].op = "get_description"
          /\ rcalls[j].op = "get_full_component_info"
          /\ rcalls[i].id = "keboola.unknown"
          /\ rcalls[j].id = "keboola.wr-db"
          /\ DescriptionReturned(rcalls[j]) = NoDescription("keboola.wr-db")
    /\ "ex-generic-extractor" \in FetchedIds

\* C12: when the API token or the base URL is absent the resolver makes no
\* HTTP request, does not raise, and get_description returns the placeholder
\* for every id
C12_NoCredentialsNoRequest ==
    ~(TokenSet /\ BaseUrlSet) =>
        /\ httpGets = 0
        /\ \A i \in DOMAIN rcalls :
              /\ ~rcalls[i].result.raised
              /\ rcalls[i].op = "get_description"
                    => rcalls[i].result.value = NoDescription(rcalls[i].id)

C12_Witness ==
    /\ TokenSet
    /\ ~BaseUrlSet
    /\ Len(rcalls) >= 2
    /\ \E i \in DOMAIN rcalls :
          /\ rcalls[i].op = "get_description"
          /\ rcalls[i].id = "ex-generic-extractor"

\* C13: for every component of the fetched directory the description
\* returned is the first non-empty value among long description, short
\* description, documentation text and component name, and "Component {id}"
\* when all four are empty; so it is never empty
RECURSIVE FirstNonEmptyOf(_, _)
FirstNonEmptyOf(values, default) ==
    IF values = <<>> THEN default
    ELSE IF Head(values) # Absent /\ Head(values) # "" THEN Head(values)
    ELSE FirstNonEmptyOf(Tail(values), default)

C14_FetchedOnceOnFirstCall ==
    /\ httpGets <= 1
    /\ \A i \in DOMAIN rcalls :
          /\ rcalls[i].loads = (IF i = 1 THEN 1 ELSE 0)
          /\ i > 1 => rcalls[i].gets = 0
    /\ Len(rcalls) >= 1 => cache.loaded

C14_Witness ==
    /\ Len(rcalls) = MaxCalls
    /\ directoryFails
    /\ httpGets = 1
    /\ cache.map = <<>>
    /\ \E i, j \in DOMAIN rcalls : rcalls[i].op # rcalls[j].op

\* C15: once the resolver's cache has been populated it is read-only: no
\* later operation of the run (get_description, get_full_component_info or the
\* normalizer consuming their results) adds, removes or changes an entry or a
\* field of an entry
C15_CacheIsReadOnly == [][cache.loaded => cache' = cache]_vars

\* -------------------------------------- create_semantic_context_statements
KB_PROJECT_LABEL == "kb_project"

\* `table.<attr>` on a pydantic model: the attributes of a Table are its field
\* names (display_name, rows_count, ...); an alias given with Field(alias=...)
\* is not an attribute and reading it is an AttributeError
HasAttr(table, attr) == attr \in DOMAIN table

\* the attributes the loop body reads of every table, whatever their values
AttributesRead ==
    <<"displayName", "description", "rowsCount", "created_by_component",
      "last_import_date", "last_change_date">>

ReadsOk(table) == \A i \in DOMAIN AttributesRead : HasAttr(table, AttributesRead[i])

\* `not s or not s.strip()`
BlankStrings == {"", " "}
IsBlank(s) == s = Absent \/ s \in BlankStrings

\* `table.displayName or table.name or table_id`
DisplayNameOf(table_id, table) ==
    IF Truthy(table.displayName) THEN table.displayName
    ELSE IF Truthy(table.name) THEN table.name
    ELSE table_id

\* `{table.rowsCount or 0}`
RowsText(table) ==
    ToString(IF table.rowsCount = AbsentInt THEN 0 ELSE table.rowsCount)

\* the first element of statement_parts
DescriptionPart(table_id, table) ==
    IF IsBlank(table.description)
    THEN "Table '" \o DisplayNameOf(table_id, table) \o "' contains "
            \o RowsText(table) \o " rows."
    ELSE "Table '" \o DisplayNameOf(table_id, table) \o "' has this description: "
            \o table.description \o ". It contains " \o RowsText(table) \o " rows."

\* `if table.created_by_component:` a model instance is truthy
ComponentPart(table) ==
    LET comp_id == table.created_by_component.id
        comp_description == table.created_by_component.description
    IN IF IsBlank(comp_id) THEN <<>>
       ELSE IF IsBlank(comp_description)
       THEN <<"It was created by " \o comp_id \o ".">>
       ELSE <<"It was created by " \o comp_id \o " (" \o comp_description \o ").">>

\* f"{dt}" of a datetime is str(dt): the date, a space, the time of day
StrOfDatetime(dt) == dt.date \o " " \o dt.time

RECURSIVE Join(_, _)
Join(parts, sep) ==
    IF parts = <<>> THEN ""
    ELSE IF Len(parts) = 1 THEN parts[1]
    ELSE parts[1] \o sep \o Join(Tail(parts), sep)

\* freshness_info and the part built of it
FreshnessPart(table) ==
    LET imported == IF table.last_import_date.set
                    THEN <<"last imported on " \o StrOfDatetime(table.last_import_date)>>
                    ELSE <<>>
        changed == IF table.last_change_date.set
                   THEN <<"last changed on " \o StrOfDatetime(table.last_change_date)>>
                   ELSE <<>>
        freshness_info == imported \o changed
    IN IF freshness_info = <<>> THEN <<>>
       ELSE <<"Data is " \o Join(freshness_info, ", ") \o ".">>

StatementParts(table_id, table) ==
    <<DescriptionPart(table_id, table)>> \o ComponentPart(table) \o FreshnessPart(table)

SemanticStatementOf(table_id, table) ==
    [statement |-> Join(StatementParts(table_id, table), " "),
     always_include |-> FALSE,
     critical |-> FALSE,
     labels |-> <<KB_PROJECT_LABEL>>,
     lookup_summaries |-> <<DisplayNameOf(table_id, table), table_id, "source",
                            "component", "created by", "fresh", "updated",
                            "recent", "size", "row count", "volume">>]

\* main: `statements = waii_manager.create_semantic_context_statements(
\* metadata.tables)` with the tables the collector returned
BuilderStart ==
    /\ kpc = "done"
    /\ kret.kind = "returned"
    /\ bpc = "idle"
    /\ bpc' = "loop"
    /\ bidx' = 1
    /\ statements' = <<>>
    /\ statement_parts' = <<>>
    /\ UNCHANGED bret
    /\ UNCHANGED <<clientVars, resolverVars, collectorVars, otherVars>>

\* one iteration of `for table_id, table in tables.items():`
BuildStatement ==
    /\ bpc = "loop"
    /\ bidx <= Len(kret.tables)
    /\ LET table == kret.tables[bidx]
           table_id == table.id
       IN IF ReadsOk(table)
          THEN /\ statement_parts' =
                     Append(statement_parts, StatementParts(table_id, table))
               /\ statements' = Append(statements, SemanticStatementOf(table_id, table))
               /\ bidx' = bidx + 1
               /\ UNCHANGED <<bpc, bret>>
          ELSE /\ bpc' = "done"
               /\ bret' = [kind |-> "raised", error |-> "AttributeError",
                           statements |-> <<>>]
               /\ UNCHANGED <<bidx, statement_parts, statements>>
    /\ UNCHANGED <<clientVars, resolverVars, collectorVars, otherVars>>

\* `return statements`
BuilderReturn ==
    /\ bpc = "loop"
    /\ bidx > Len(kret.tables)
    /\ bpc' = "done"
    /\ bret' = [kind |-> "returned", error |-> "", statements |-> statements]
    /\ UNCHANGED <<bidx, statement_parts, statements>>
    /\ UNCHANGED <<clientVars, resolverVars, collectorVars, otherVars>>

NextBuilder == BuilderStart \/ BuildStatement \/ BuilderReturn

NextPipeline == NextCollector \/ NextBuilder

\* main: collect, then build the statements of the collected tables
SpecPipeline == InitCollector /\ [][NextPipeline]_vars

\* ------------------------------------------ claims on the statement builder
BuilderDone == bpc = "done"

\* table i of the collected tables has a statement in the builder's result
HasStatement(i) ==
    /\ bret.kind = "returned"
    /\ i \in DOMAIN bret.statements
    /\ i \in DOMAIN statement_parts

DateText(d) == d.date \o " " \o d.time

\* C16: for every table the first clause of its statement is
\* "Table '{display_name}' contains {row_count} rows." when the description is
\* empty and "Table '{display_name}' has this description: {description}. It
\* contains {row_count} rows." otherwise
C16_FirstClause ==
    BuilderDone =>
        \A i \in DOMAIN kret.tables :
            LET t == kret.tables[i] IN
            /\ HasStatement(i)
            /\ statement_parts[i][1] =
                  IF t.description = ""
                  THEN "Table '" \o t.display_name \o "' contains "
                          \o ToString(t.rows_count) \o " rows."
                  ELSE "Table '" \o t.display_name \o "' has this description: "
                          \o t.description \o ". It contains "
                          \o ToString(t.rows_count) \o " rows."

\* C17: for every table the statement has the component clause iff the
\* creating component id is non-empty; the clause is "It was created by {id}
\* ({description})." with a non-empty component description and "It was
\* created by {id}." with an empty one
C17_ComponentClause ==
    BuilderDone =>
        \A i \in DOMAIN kret.tables :
            LET c == kret.tables[i].created_by_component
                clause == IF c.description = ""
                          THEN "It was created by " \o c.id \o "."
                          ELSE "It was created by " \o c.id \o " ("
                                  \o c.description \o ")."
            IN /\ HasStatement(i)
               /\ (c.id # "") <=>
                     \E j \in DOMAIN statement_parts[i] : statement_parts[i][j] = clause

\* C18: for every table the statement text is the present clauses in the
\* order description/row count, component, freshness, joined by one space;
\* the freshness clause is present iff a date is set and lists "last imported
\* on {date}" before "last changed on {date}", joined by ", "
C18_ClausesJoined ==
    BuilderDone =>
        \A i \in DOMAIN kret.tables :
            LET t == kret.tables[i]
                imp == IF t.last_import_date.set
                       THEN <<"last imported on " \o DateText(t.last_import_date)>>
                       ELSE <<>>
                chg == IF t.last_change_date.set
                       THEN <<"last changed on " \o DateText(t.last_change_date)>>
                       ELSE <<>>
                fresh == IF imp \o chg = <<>> THEN <<>>
                         ELSE IF Len(imp \o chg) = 1
                         THEN <<"Data is " \o (imp \o chg)[1] \o ".">>
                         ELSE <<"Data is " \o imp[1] \o ", " \o chg[1] \o ".">>
            IN /\ HasStatement(i)
               /\ Len(statement_parts[i]) >= 1 + Len(fresh)
               /\ fresh # <<>> =>
                     statement_parts[i][Len(statement_parts[i])] = fresh[1]
               /\ bret.statements[i].statement = Join(statement_parts[i], " ")
               /\ \A j \in DOMAIN statement_parts[i] : statement_parts[i][j] # ""

\* C19: every table-level statement has always_include false, critical
\* false, labels ["kb_project"] and the lookup keywords [display_name,
\* table_id, "source", "component", "created by", "fresh", "updated",
\* "recent", "size", "row count", "volume"]
C19_FixedFields ==
    BuilderDone =>
        \A i \in DOMAIN kret.tables :
            LET t == kret.tables[i] IN
            /\ HasStatement(i)
            /\ bret.statements[i].always_include = FALSE
            /\ bret.statements[i].critical = FALSE
            /\ bret.statements[i].labels = <<"kb_project">>
            /\ bret.statements[i].lookup_summaries =
                  <<t.display_name, t.id, "source", "component", "created by",
                    "fresh", "updated", "recent", "size", "row count", "volume">>

\* C20: scenario A: the table sales_daily with description "Daily sales", 120
\* rows, created by ex-generic-extractor ("Generic Extractor"), last imported
\* on 2024-01-15 and without last change date yields exactly the statement
\* "Table 'sales_daily' has this description: Daily sales. It contains 120
\* rows. It was created by ex-generic-extractor (Generic Extractor). Data is
\* last imported on 2024-01-15."
ScenarioA(t) ==
    /\ t.display_name = "sales_daily"
    /\ t.description = "Daily sales"
    /\ t.rows_count = 120
    /\ t.created_by_component.id = "ex-generic-extractor"
    /\ t.created_by_component.description = "Generic Extractor"
    /\ t.last_import_date.set
    /\ t.last_import_date.date = "2024-01-15"
    /\ ~t.last_change_date.set

C20_ScenarioA ==
    BuilderDone =>
        \A i \in DOMAIN kret.tables :
            ScenarioA(kret.tables[i]) =>
                /\ HasStatement(i)
                /\ bret.statements[i].statement =
                      "Table 'sales_daily' has this description: Daily sales. "
                      \o "It contains 120 rows. "
                      \o "It was created by ex-generic-extractor (Generic Extractor). "
                      \o "Data is last imported on 2024-01-15."

\* ---------------------------------- claims on the resolver, continued
\* C29: in every state of the resolver (cache unloaded, loaded, loaded empty)
\* and after any sequence of earlier calls, get_description(id) equals the
\* description field of get_full_component_info(id), for every id
C29_DescriptionAgrees ==
    /\ \A id \in ComponentIds :
          /\ ~GetDescription(id).raised
          /\ GetDescription(id).value = GetFullComponentInfo(id).description
    /\ \A i, j \in DOMAIN rcalls :
          (rcalls[i].id = rcalls[j].id)
              => DescriptionReturned(rcalls[i]) = DescriptionReturned(rcalls[j])

C29_Witness ==
    /\ cache.loaded
    /\ cache.map = <<>>
    /\ directory # <<>>
    /\ \E i, j \in DOMAIN rcalls :
          /\ rcalls[i].id = rcalls[j].id
          /\ rcalls[i].op = "get_description"
          /\ rcalls[j].op = "get_full_component_info"
          /\ i < j

\* ------------------------------------ the WAII service and the publisher
ApiUrl == "https://waii.example/api/"
ApiKey == "waii-key"
NamedConnection == "snowflake://MAIN@acct/MAIN?role=R"

\* WAII_DB_DATABASE and WAII_DB_USERNAME, when set
Database == "SAPI_9"
Username == "SAPI_WORKSPACE_9"

\* The connection ids of the service, each with the hints it holds as a
\* substring (`hint in conn_id`).
ConnParts ==
    ("snowflake://SAPI_WORKSPACE_9@acct/SAPI_9?role=A" :> {Database, Username})
 @@ ("snowflake://SAPI_WORKSPACE_9@acct/SAPI_9?role=B" :> {Database, Username})
 @@ ("snowflake://SAPI_WORKSPACE_9@acct/OTHER_DB" :> {Username})
 @@ ("snowflake://ETL@acct/SAPI_9" :> {Database})
 @@ (NamedConnection :> {})

AvailableIds == DOMAIN ConnParts \ {NamedConnection}

Contains(conn_id, hint) == hint \in ConnParts[conn_id]

Event(op, arg, ok) == [op |-> op, arg |-> arg, ok |-> ok]

\* The service as the constructor meets it.
Service == [initializeFails |-> initializeFails, activatable |-> activatable,
            connListFails |-> connListFails, connections |-> connections]

RequiredParams == {"api_url", "api_key", "connection_name"}

MissingParams(p) == {name \in RequiredParams : ~Truthy(p[name])}

HintsSupplied(p) == Truthy(p.db_database) /\ Truthy(p.db_username)

MatchesEitherHint(p, conn_id) ==
    Contains(conn_id, p.db_database) \/ Contains(conn_id, p.db_username)
MatchesHints(p, conn_id) ==
    Contains(conn_id, p.db_database) /\ Contains(conn_id, p.db_username)

\* The loop over connection_ids: every matching id is activated in listing
\* order until one activation succeeds.
RECURSIVE TryAlternatives(_, _, _)
TryAlternatives(p, accepted, ids) ==
    IF ids = <<>> THEN [ok |-> FALSE, log |-> <<>>]
    ELSE IF ~MatchesHints(p, Head(ids)) THEN TryAlternatives(p, accepted, Tail(ids))
    ELSE IF Head(ids) \in accepted
         THEN [ok |-> TRUE,
               log |-> <<Event("activate_connection", Head(ids), TRUE)>>]
    ELSE LET rest == TryAlternatives(p, accepted, Tail(ids)) IN
         [ok |-> rest.ok,
          log |-> <<Event("activate_connection", Head(ids), FALSE)>> \o rest.log]

InitializeConnection(p, svc) ==
    LET init == Event("initialize", p.api_url, ~svc.initializeFails)
        named == Event("activate_connection", p.connection_name,
                       p.connection_name \in svc.activatable)
        listing == Event("get_connections", "", ~svc.connListFails)
        alt == IF HintsSupplied(p)
               THEN TryAlternatives(p, svc.activatable, svc.connections)
               ELSE [ok |-> FALSE, log |-> <<>>]
    IN  IF svc.initializeFails THEN [raised |-> TRUE, log |-> <<init>>]
        ELSE IF named.ok THEN [raised |-> FALSE, log |-> <<init, named>>]
        ELSE IF svc.connListFails
             THEN [raised |-> TRUE, log |-> <<init, named, listing>>]
        ELSE [raised |-> ~alt.ok, log |-> <<init, named, listing>> \o alt.log]

\* WaiiSemanticContextManager(...): validation, then the connection.
Construct(p, svc) ==
    IF MissingParams(p) # {} THEN [raised |-> TRUE, log |-> <<>>]
    ELSE InitializeConnection(p, svc)

\* The SemanticStatement objects the caller passes, and the ids the service
\* gives the statements it accepted.
Statement(i) == [statement |-> "Table 't" \o ToString(i) \o "' contains 0 rows.",
                 always_include |-> FALSE, critical |-> FALSE,
                 labels |-> <<KB_PROJECT_LABEL>>]
StatementsOf(n) == [i \in 1..n |-> Statement(i)]
StatementIds(n) == [i \in 1..n |-> "stmt-" \o ToString(i)]

\* What the exception of a failed request carries: no `response`
\* attribute, a response that is falsy (an HTTP error status), a truthy
\* response with a JSON body, a truthy response whose json() raises.
RequestErrors == {"no_response", "falsy_response", "json_response", "text_response"}

Returns(k) == [kind |-> "returns", count |-> k]
Raises(e) == [kind |-> "raises", error |-> e]
RequestOutcomes(n) == {Returns(k) : k \in 0..n} \cup {Raises(e) : e \in RequestErrors}

ResponseIds(outcome) == StatementIds(outcome.count)

\* The lines the handler of add_to_semantic_context logs.
ErrorLines(e) ==
    <<"Error adding semantic context">>
    \o (IF e = "json_response" THEN <<"Error details">> ELSE <<>>)
    \o (IF e = "text_response" THEN <<"Response status">> ELSE <<>>)

\* The requests one call sends for a list of statements.
RequestsPerStatement(stmts) == [i \in DOMAIN stmts |-> <<stmts[i]>>]
RequestsOf(stmts) == <<stmts>>

\* Where add_to_semantic_context goes after the statements file.
NextAfterSaveOnlyIfSaved(saved_file) == IF saved_file THEN "request" ELSE "done"
NextAfterSave(saved_file) == "request"

\* What the handler leaves to the caller when the request raised.
AfterRequestErrorSwallowed(e) == [kind |-> "returned", value |-> [is_none |-> TRUE, ids |-> <<>>]]
AfterRequestError(e) == [kind |-> "raised", error |-> e]

\* _save_json_to_file: the whole body is in a try whose handler logs and
\* returns None, so the caller sees a file name or None, never an error.
SaveJsonToFileRaises(fails) == [raised |-> fails, saved |-> ~fails]
SaveJsonToFile(fails) == [raised |-> FALSE, saved |-> ~fails]

\* `-> None`: the method has no return statement.
ReturnValue(ids) == [is_none |-> TRUE, ids |-> <<>>]

ValidParams == [api_url |-> ApiUrl, api_key |-> ApiKey,
                connection_name |-> NamedConnection,
                db_database |-> Absent, db_username |-> Absent]

HintedParams == {[ValidParams EXCEPT !.db_database = d, !.db_username = u] :
                    d \in {Absent, "", Database}, u \in {Absent, Username}}

AnyParams == [api_url : {"", ApiUrl}, api_key : {"", ApiKey},
              connection_name : {"", NamedConnection},
              db_database : {Absent}, db_username : {Absent}]

PublisherStart ==
    /\ mpc = "new"
    /\ ppc = "idle"
    /\ waiiLog = <<>>
    /\ pret = NoOutcome
    /\ statement_ids = <<>>
    /\ exitStatus = -1

\* Three families of runs: the connection varies, the request varies, the
\* required parameters vary.
PublisherInputs ==
    \/ /\ waiiParams \in HintedParams
       /\ initializeFails = FALSE
       /\ activatable \in SUBSET DOMAIN ConnParts
       /\ \/ connListFails = FALSE /\ connections \in SeqsUpTo(AvailableIds, MaxConnections)
          \/ connListFails = TRUE /\ connections = <<>>
       /\ pstatements = StatementsOf(1)
       /\ requestOutcome = Returns(1)
    \/ /\ waiiParams = ValidParams
       /\ initializeFails = FALSE
       /\ activatable = {NamedConnection}
       /\ connListFails = FALSE
       /\ connections = <<>>
       /\ \E n \in 0..MaxStatements :
             /\ pstatements = StatementsOf(n)
             /\ requestOutcome \in RequestOutcomes(n)
    \/ /\ waiiParams \in AnyParams
       /\ initializeFails \in BOOLEAN
       /\ activatable = {NamedConnection}
       /\ connListFails = FALSE
       /\ connections = <<>>
       /\ pstatements = StatementsOf(1)
       /\ requestOutcome = Returns(1)

InitPublisher ==
    /\ ClientIdle
    /\ ResolverIdle
    /\ CollectorIdle
    /\ BuilderIdle
    /\ MainIdle
    /\ PublisherInputs
    /\ PublisherStart

publisherInputs == <<waiiParams, initializeFails, activatable, connListFails,
                     connections, requestOutcome, pstatements>>

\* waii_manager = WaiiSemanticContextManager(...)
ConstructManager ==
    /\ mpc = "new"
    /\ LET c == Construct(waiiParams, Service) IN
         /\ waiiLog' = waiiLog \o c.log
         /\ mpc' = IF c.raised THEN "failed" ELSE "constructed"
    /\ statement_ids' = <<>>
    /\ UNCHANGED <<publisherInputs, ppc, pret, exitStatus>>
    /\ UNCHANGED <<clientVars, resolverVars, collectorVars, builderVars, mainVars>>

\* add_to_semantic_context, up to the statements file
SaveSemanticStatements ==
    /\ mpc = "constructed"
    /\ ppc = "idle"
    /\ \E fails \in BOOLEAN :
         LET w == SaveJsonToFile(fails) IN
         /\ waiiLog' = Append(waiiLog, Event("write_statements", pstatements, w.saved))
         /\ IF w.raised
            THEN ppc' = "done" /\ pret' = AfterRequestError("write_error")
            ELSE ppc' = NextAfterSave(w.saved) /\ pret' = pret
    /\ UNCHANGED <<publisherInputs, mpc, statement_ids, exitStatus>>
    /\ UNCHANGED <<clientVars, resolverVars, collectorVars, builderVars, mainVars>>

\* SemanticContext.modify_semantic_context(...) and what follows it, up to
\* the ids file or the handler.
ModifySemanticContext ==
    /\ ppc = "request"
    /\ LET reqs == RequestsOf(pstatements)
           sent == [i \in DOMAIN reqs |->
                       Event("modify_semantic_context", reqs[i],
                             requestOutcome.kind = "returns")]
       IN IF requestOutcome.kind = "raises"
          THEN /\ waiiLog' = waiiLog \o sent
                     \o <<Event("log_error", ErrorLines(requestOutcome.error), TRUE)>>
               /\ pret' = AfterRequestError(requestOutcome.error)
               /\ ppc' = "done"
          ELSE /\ waiiLog' = waiiLog \o sent
                     \o (IF requestOutcome.count # Len(pstatements)
                         THEN <<Event("log_warning", <<requestOutcome.count, Len(pstatements)>>, TRUE)>>
                         ELSE <<>>)
               /\ pret' = pret
               /\ ppc' = "save_ids"
    /\ UNCHANGED <<publisherInputs, mpc, statement_ids, exitStatus>>
    /\ UNCHANGED <<clientVars, resolverVars, collectorVars, builderVars, mainVars>>

\* self._save_statement_ids_to_file(statement_ids), then the method ends
SaveStatementIds ==
    /\ ppc = "save_ids"
    /\ \E fails \in BOOLEAN :
         LET w == SaveJsonToFile(fails) IN
         /\ waiiLog' = Append(waiiLog, Event("write_ids", ResponseIds(requestOutcome), w.saved))
         /\ pret' = IF w.raised THEN AfterRequestError("write_error")
                    ELSE [kind |-> "returned",
                          value |-> ReturnValue(ResponseIds(requestOutcome))]
    /\ ppc' = "done"
    /\ UNCHANGED <<publisherInputs, mpc, statement_ids, exitStatus>>
    /\ UNCHANGED <<clientVars, resolverVars, collectorVars, builderVars, mainVars>>

\* main's handler of the WAII block: LOG.exception, sys.exit(1)
WaiiErrorExit ==
    /\ exitStatus = -1
    /\ mpc = "failed" \/ (ppc = "done" /\ pret.kind = "raised")
    /\ exitStatus' = 1
    /\ UNCHANGED <<publisherInputs, mpc, ppc, waiiLog, pret, statement_ids>>
    /\ UNCHANGED <<clientVars, resolverVars, collectorVars, builderVars, mainVars>>

\* main returns after the WAII block
MainReturns ==
    /\ exitStatus = -1
    /\ ppc = "done" /\ pret.kind = "returned"
    /\ exitStatus' = 0
    /\ UNCHANGED <<publisherInputs, mpc, ppc, waiiLog, pret, statement_ids>>
    /\ UNCHANGED <<clientVars, resolverVars, collectorVars, builderVars, mainVars>>

NextPublisher ==
    \/ ConstructManager
    \/ SaveSemanticStatements
    \/ ModifySemanticContext
    \/ SaveStatementIds
    \/ WaiiErrorExit
    \/ MainReturns

SpecPublisher == InitPublisher /\ [][NextPublisher]_vars

\* ------------------------------------------------ claims on the publisher
Constructed == mpc = "constructed"
ConstructionRaised == mpc = "failed"

EventsOf(op) == {i \in DOMAIN waiiLog : waiiLog[i].op = op}

\* The activation of the named connection is the second SDK call.
NamedAttempted ==
    /\ Len(waiiLog) >= 2
    /\ waiiLog[2].op = "activate_connection"
    /\ waiiLog[2].arg = waiiParams.connection_name
NamedActivated == NamedAttempted /\ waiiLog[2].ok
NamedFailed == NamedAttempted /\ ~waiiLog[2].ok

BothHints == Truthy(waiiParams.db_database) /\ Truthy(waiiParams.db_username)

ContainsBoth(conn_id) ==
    /\ waiiParams.db_database \in ConnParts[conn_id]
    /\ waiiParams.db_username \in ConnParts[conn_id]

Available == IF connListFails THEN <<>> ELSE connections

Candidates == SelectSeq(Available, ContainsBoth)

\* The activations attempted after the listing.
AlternativesTried ==
    IF \E i \in DOMAIN waiiLog : waiiLog[i].op = "get_connections"
    THEN LET at == CHOOSE i \in DOMAIN waiiLog : waiiLog[i].op = "get_connections"
         IN SubSeq(waiiLog, at + 1, Len(waiiLog))
    ELSE <<>>

Requests == EventsOf("modify_semantic_context")

\* The call of add_to_semantic_context got past the request.
RequestPassed == ppc \in {"save_ids", "done"}

\* C21: a call of add_to_semantic_context sends one
\* modify_semantic_context request, which carries the whole list of
\* statements, whether the request returns or raises; no second request is
\* ever sent.
C21_OneRequestPerCall ==
    /\ Cardinality(Requests) <= 1
    /\ RequestPassed =>
         /\ Cardinality(Requests) = 1
         /\ \A i \in Requests : waiiLog[i].arg = pstatements

C21_Witness ==
    /\ ppc = "done"
    /\ Len(pstatements) >= 2
    /\ Cardinality(Requests) = 1
    /\ exitStatus # -1

CallEnded == ppc = "done"

FewerReturned ==
    /\ requestOutcome.kind = "returns"
    /\ requestOutcome.count < Len(pstatements)

\* C22: when the service returns fewer statements than were submitted, the
\* call does not raise, logs a warning, writes the statements file and the
\* ids file, and returns the list of the returned ids to its caller.
C22_FewerIdsReturned ==
    (CallEnded /\ FewerReturned) =>
        /\ pret.kind = "returned"
        /\ EventsOf("log_warning") # {}
        /\ EventsOf("write_statements") # {}
        /\ EventsOf("write_ids") # {}
        /\ ~pret.value.is_none
        /\ pret.value.ids = ResponseIds(requestOutcome)

\* The position of the only event of an operation, 0 when there is none.
At(op) == IF EventsOf(op) = {} THEN 0 ELSE CHOOSE i \in EventsOf(op) : TRUE

\* C23: the statements file is written before the request is sent; the ids
\* file is written after the service responded, and only then; the ids
\* file is written whether or not the statements file could be written,
\* and the statements file whether or not the ids file can be.
C23_WritesAroundRequest ==
    /\ \A op \in {"write_statements", "modify_semantic_context", "write_ids"} :
          Cardinality(EventsOf(op)) <= 1
    /\ Requests # {} =>
          /\ At("write_statements") # 0
          /\ At("write_statements") < At("modify_semantic_context")
          /\ waiiLog[At("write_statements")].arg = pstatements
    /\ EventsOf("write_ids") # {} =>
          /\ Requests # {}
          /\ waiiLog[At("modify_semantic_context")].ok
          /\ At("modify_semantic_context") < At("write_ids")
          /\ waiiLog[At("write_ids")].arg = ResponseIds(requestOutcome)
    /\ (CallEnded /\ requestOutcome.kind = "returns") => EventsOf("write_ids") # {}

\* The statements file could not be written; the request was sent and the
\* ids file written all the same.
C23_Witness ==
    /\ CallEnded
    /\ At("write_statements") # 0 /\ ~waiiLog[At("write_statements")].ok
    /\ At("write_ids") # 0 /\ waiiLog[At("write_ids")].ok
    /\ Len(pstatements) >= 2

RequestRaised ==
    /\ Requests # {}
    /\ \E i \in Requests : ~waiiLog[i].ok

\* C24: when the modify_semantic_context request raises, with any of the
\* kinds of exception, add_to_semantic_context logs the error and raises
\* that same exception, the ids file is never written, and the run never
\* ends with status 0: its status is 1 once it ended.
C24_RequestErrorPropagates ==
    RequestRaised =>
        /\ CallEnded
        /\ pret = [kind |-> "raised", error |-> requestOutcome.error]
        /\ At("log_error") > At("modify_semantic_context")
        /\ waiiLog[At("log_error")].arg[1] = "Error adding semantic context"
        /\ EventsOf("write_ids") = {}
        /\ exitStatus \in {-1, 1}

C24_Witness ==
    /\ RequestRaised
    /\ requestOutcome.error = "no_response"
    /\ Len(pstatements) >= 2
    /\ exitStatus = 1

\* ------------------------------------------------------ the audit files
\* get_tables_metadata_sample and then the WAII block, as main calls them
\* one after the other, with statements of the caller's choice.
InitAudit ==
    /\ ClientIdle
    /\ BuilderIdle
    /\ MainIdle
    /\ cache = NotLoaded
    /\ httpGets = 0
    /\ rcalls = <<>>
    /\ credentials = ServingBackend[1]
    /\ directoryFails = ServingBackend[2]
    /\ directory = ServingBackend[3]
    /\ \/ clientRaises = TRUE /\ raw_metadata = EmptyRaw
       \/ clientRaises = FALSE /\ (\E sz \in Shapes(1) : raw_metadata \in LoopInputs(sz))
    /\ kpc = "extract"
    /\ kidx = 0
    /\ metadata_tables = <<>>
    /\ processed = <<>>
    /\ snapshot = <<>>
    /\ kret = NoResult
    /\ waiiParams = ValidParams
    /\ initializeFails = FALSE
    /\ activatable = {NamedConnection}
    /\ connListFails = FALSE
    /\ connections = <<>>
    /\ \E n \in 0..MaxStatements :
          /\ pstatements = StatementsOf(n)
          /\ requestOutcome \in RequestOutcomes(n)
    /\ mpc = "idle"
    /\ ppc = "idle"
    /\ waiiLog = <<>>
    /\ pret = NoOutcome
    /\ statement_ids = <<>>
    /\ exitStatus = -1

\* the metadata came back: main enters the WAII block
EnterWaiiBlock ==
    /\ kpc = "done"
    /\ kret.kind = "returned"
    /\ mpc = "idle"
    /\ mpc' = "new"
    /\ UNCHANGED <<publisherInputs, ppc, waiiLog, pret, statement_ids, exitStatus>>
    /\ UNCHANGED <<clientVars, resolverVars, collectorVars, builderVars, mainVars>>

\* main's outer handler: LOG.error, sys.exit(1)
OuterErrorExit ==
    /\ kpc = "done"
    /\ kret.kind = "raised"
    /\ exitStatus = -1
    /\ exitStatus' = 1
    /\ UNCHANGED <<publisherInputs, mpc, ppc, waiiLog, pret, statement_ids>>
    /\ UNCHANGED <<clientVars, resolverVars, collectorVars, builderVars, mainVars>>

NextAudit ==
    \/ NextCollector
    \/ EnterWaiiBlock
    \/ OuterErrorExit
    \/ NextPublisher

SpecAudit == InitAudit /\ [][NextAudit]_vars

SnapshotFailed == kpc = "done" /\ kret.kind = "returned" /\ snapshot = <<>>

WriteFailed(op) == \E i \in EventsOf(op) : ~waiiLog[i].ok

\* C30: a failed write of the metadata snapshot, of the statements file or
\* of the ids file never shows outside: get_tables_metadata_sample raises
\* only when the client or a table raised and returns the tables it
\* processed, add_to_semantic_context raises only when the request raised,
\* and the request is sent after the statements file was attempted.
C30_AuditWriteFailuresSwallowed ==
    /\ kret.kind = "raised" =>
          clientRaises \/ \E i \in DOMAIN processed : processed[i].raised
    /\ kret.kind = "returned" =>
          /\ kret.tables = metadata_tables
          /\ kret.tables = TablesOf(processed)
    /\ pret.kind = "raised" => RequestRaised
    /\ EventsOf("write_statements") # {} => (ppc = "request" \/ Requests # {})
    /\ (CallEnded /\ requestOutcome.kind = "returns") => pret.kind = "returned"

\* None of the three files could be written, and the run ended with
\* status 0 after publishing the statements.
C30_Witness ==
    /\ SnapshotFailed
    /\ Len(kret.tables) >= 1
    /\ WriteFailed("write_statements")
    /\ WriteFailed("write_ids")
    /\ Requests # {}
    /\ Len(pstatements) >= 1
    /\ exitStatus = 0

\* --------------------------------------------------- main of the scripts
Scripts == {"packaged", "legacy"}

KeboolaVars == {"KEBOOLA_API_TOKEN", "KEBOOLA_PROJECT_URL"}
WaiiVars == {"WAII_API_URL", "WAII_API_KEY", "WAII_CONNECTION"}

\* `required_vars` of main
RequiredVarsKeboolaOnly(s) == KeboolaVars
RequiredVars(s) == IF s = "packaged" THEN KeboolaVars \cup WaiiVars ELSE KeboolaVars

\* `[var for var in required_vars if os.getenv(var) is None]`
MissingVars(required, present) == required \ present

ErrorLine(text, names) == [level |-> "error", text |-> text, names |-> names]

\* `if args.dry_run: ... else:` of the flat script
EntersWaiiBlockAlways(dry) == TRUE
EntersWaiiBlock(dry) == ~dry

\* The tables the flat collector returns, or that it raises.
CollectOutcomes == {"raises"} \cup {"tables-" \o ToString(n) : n \in 0..MaxLoopTables}

\* The flat manager and the service: the connection cannot be activated,
\* the request raises, or all goes well.
WaiiOutcomes == {"activation_raises", "request_raises", "published"}

ServiceCalls(outcome) ==
    <<"WAII.initialize", "activate_connection">>
    \o (IF outcome = "activation_raises" THEN <<"get_connections">>
        ELSE <<"modify_semantic_context">>)

InitMain ==
    /\ ClientIdle
    /\ ResolverIdle
    /\ CollectorIdle
    /\ BuilderIdle
    /\ PublisherIdle
    /\ script \in Scripts
    /\ env \in SUBSET (KeboolaVars \cup WaiiVars)
    /\ \/ /\ script = "packaged"
          /\ dry_run = FALSE
          /\ collectOutcome = "none"
          /\ waiiOutcome = "none"
       \/ /\ script = "legacy"
          /\ dry_run \in BOOLEAN
          /\ collectOutcome \in CollectOutcomes
          /\ waiiOutcome \in WaiiOutcomes
    /\ mainpc = "check"
    /\ mainLog = <<>>
    /\ storageCalls = 0
    /\ serviceLog = <<>>

mainInputs == <<script, env, dry_run, collectOutcome, waiiOutcome>>

Exit(status) ==
    /\ exitStatus' = status
    /\ mainpc' = "exited"
    /\ UNCHANGED <<publisherInputs, mpc, ppc, waiiLog, pret, statement_ids>>

StayAlive == UNCHANGED publisherVars

\* the check of required_vars, `sys.exit(1)` when a name is missing
CheckEnvironment ==
    /\ mainpc = "check"
    /\ LET missing_vars == MissingVars(RequiredVars(script), env) IN
         IF missing_vars # {}
         THEN /\ mainLog' = Append(mainLog,
                      ErrorLine("Missing environment variables", missing_vars))
              /\ Exit(1)
         ELSE /\ mainpc' = "collect"
              /\ StayAlive
              /\ UNCHANGED mainLog
    /\ UNCHANGED <<mainInputs, storageCalls, serviceLog>>
    /\ UNCHANGED <<clientVars, resolverVars, collectorVars, builderVars>>

\* `KeboolaMetadataCollector(api_token, project_url, project_name)`: three
\* arguments for a constructor of two, TypeError, caught by the outer
\* handler of main
PackagedConstructCollector ==
    /\ mainpc = "collect"
    /\ script = "packaged"
    /\ mainLog' = Append(mainLog, ErrorLine("Error: TypeError", {}))
    /\ Exit(1)
    /\ UNCHANGED <<mainInputs, storageCalls, serviceLog>>
    /\ UNCHANGED <<clientVars, resolverVars, collectorVars, builderVars>>

\* the flat script: collector.get_tables_metadata_sample(limit=limit)
LegacyCollect ==
    /\ mainpc = "collect"
    /\ script = "legacy"
    /\ storageCalls' = storageCalls + 1
    /\ IF collectOutcome = "raises"
       THEN /\ mainLog' = Append(mainLog, ErrorLine("Error: collector", {}))
            /\ Exit(1)
       ELSE /\ mainpc' = IF EntersWaiiBlock(dry_run) THEN "waii" ELSE "print"
            /\ StayAlive
            /\ UNCHANGED mainLog
    /\ UNCHANGED <<mainInputs, serviceLog>>
    /\ UNCHANGED <<clientVars, resolverVars, collectorVars, builderVars>>

\* the flat script: collector.print_metadata_results(metadata, limit)
LegacyDryRun ==
    /\ mainpc = "print"
    /\ Exit(0)
    /\ UNCHANGED <<mainInputs, mainLog, storageCalls, serviceLog>>
    /\ UNCHANGED <<clientVars, resolverVars, collectorVars, builderVars>>

\* the flat script: WaiiSemanticContextManager(), whose _setup_environment
\* raises ValueError on a missing WAII variable, then the statements and
\* add_to_semantic_context
LegacyWaiiBlock ==
    /\ mainpc = "waii"
    /\ LET missing_vars == MissingVars(WaiiVars, env) IN
         IF missing_vars # {}
         THEN /\ mainLog' = Append(mainLog,
                      ErrorLine("Error adding metadata to WAII: Missing WAII environment variables",
                                missing_vars))
              /\ UNCHANGED serviceLog
              /\ Exit(1)
         ELSE /\ serviceLog' = serviceLog \o ServiceCalls(waiiOutcome)
              /\ IF waiiOutcome = "published"
                 THEN Exit(0) /\ UNCHANGED mainLog
                 ELSE /\ mainLog' = Append(mainLog,
                              ErrorLine("Error adding metadata to WAII", {}))
                      /\ Exit(1)
    /\ UNCHANGED <<mainInputs, storageCalls>>
    /\ UNCHANGED <<clientVars, resolverVars, collectorVars, builderVars>>

NextMain ==
    \/ CheckEnvironment
    \/ PackagedConstructCollector
    \/ LegacyCollect
    \/ LegacyDryRun
    \/ LegacyWaiiBlock

SpecMain == InitMain /\ [][NextMain]_vars

\* ------------------------------------------------------- claims on main
Exited == mainpc = "exited"

\* Every variable one of the scripts refuses to run without.
EveryRequired == KeboolaVars \cup WaiiVars

\* The list main itself checks.
CheckedByMain == IF script = "packaged" THEN EveryRequired ELSE KeboolaVars

NamesLogged(names) ==
    \E i \in DOMAIN mainLog : mainLog[i].level = "error" /\ mainLog[i].names = names

NoApiCall == storageCalls = 0 /\ serviceLog = <<>>

C28_DryRunNeverContactsService ==
    (script = "legacy" /\ dry_run) =>
        /\ mainpc # "waii"
        /\ serviceLog = <<>>
        /\ Exited => (exitStatus = 0 <=> (KeboolaVars \subseteq env /\ collectOutcome # "raises"))

C28_Witness ==
    /\ script = "legacy"
    /\ dry_run
    /\ Exited
    /\ env = EveryRequired
    /\ collectOutcome = "tables-2"
    /\ storageCalls = 1
    /\ exitStatus = 0

\* ------------------------------------------- claims on the whole pipeline
\* The normalization of one table raised and another table was kept.
OneTableFailed ==
    /\ \E i \in DOMAIN processed : processed[i].raised
    /\ kret.kind = "returned"
    /\ kret.tables # <<>>

\* C27: a failure of one table's normalization does not end the run: the
\* collector returns the other tables, the builder returns one statement
\* for each of them and raises nothing for main's handler to turn into
\* exit status 1.
C27_TableFailureIsNotFatal ==
    /\ (\E i \in DOMAIN processed : processed[i].raised) => kret.kind # "raised"
    /\ (OneTableFailed /\ BuilderDone) =>
          /\ bret.kind = "returned"
          /\ Len(bret.statements) = Len(kret.tables)

====
